---- MODULE Spec2Model ----
(***************************************************************************)
(* Model of src/opt/sim/simSwitch.c (ABC): the switching-activity engine.  *)
(*   Sim_NtkWriteSwitchingTemplate  writes <base>.switch                   *)
(*   Sim_NtkLoadSwitching           reads a .switch file into a vector     *)
(*   Sim_NtkComputeSwitching        random simulation of the AIG           *)
(*   Sim_ComputeSwitching           2*nOnes*nZeros/nTotal^2 in binary32    *)
(***************************************************************************)
EXTENDS Integers, Sequences, FiniteSets, TLC

VARIABLES pNtk, disk, edits, w, ld, sm, mt

vars == <<pNtk, disk, edits, w, ld, sm, mt>>

(***************************************************************************)
(* Bounds of the model.                                                    *)
(***************************************************************************)
MaxObjNum == 4       \* largest Abc_NtkObjNumMax of a modelled network
MaxEdits == 1        \* edits a user makes to a .switch file before loading
MaxPtrInt == 4       \* largest int a converted pointer yields (line 123)
MaxSimWords == 3     \* largest nSimWords of a simulation buffer

NullPtr == "NULL"


RECURSIVE Pow2(_)
Pow2(n) == IF n = 0 THEN 1 ELSE 2 * Pow2(n - 1)

(***************************************************************************)
(* IEEE-754 binary32 values that the engine computes with.  A finite       *)
(* non-negative float is m * 2^e, kept with m odd (or m = 0, e = 0), so    *)
(* that equal floats are equal records.  Every operation rounds its exact  *)
(* result to 24 significant bits, to nearest, ties to even.                *)
(***************************************************************************)
FMantBits == 24

FNaN == [k |-> "nan", m |-> 0, e |-> 0]
FInf == [k |-> "inf", m |-> 0, e |-> 0]
FZero == [k |-> "num", m |-> 0, e |-> 0]
\* a float object that was never written
FUninit == [k |-> "uninit", m |-> 0, e |-> 0]

RECURSIVE Canon(_, _)
Canon(m, e) ==
    IF m = 0 THEN FZero
    ELSE IF m % 2 = 0 THEN Canon(m \div 2, e + 1)
    ELSE [k |-> "num", m |-> m, e |-> e]

\* m * 2^e, with st telling that nonzero bits were dropped below m, rounded
\* to FMantBits bits.  An inexact m has at least FMantBits + 1 bits.
RECURSIVE RoundF(_, _, _)
RoundF(m, e, st) ==
    IF m >= Pow2(FMantBits + 1)
    THEN RoundF(m \div 2, e + 1, st \/ (m % 2 = 1))
    ELSE IF m >= Pow2(FMantBits)
    THEN LET q == m \div 2
             up == (m % 2 = 1) /\ (st \/ (q % 2 = 1))
         IN  Canon(IF up THEN q + 1 ELSE q, e + 1)
    ELSE Canon(m, e)

IntToFloat(n) == Canon(n, 0)

\* a * b.  The 48-bit product is formed in two 12-bit limbs of the larger
\* mantissa; bits shifted out before rounding are remembered in the sticky
\* flag.
FMul(a, b) ==
    IF a.k = "nan" \/ b.k = "nan" THEN FNaN
    ELSE IF a.k = "inf" \/ b.k = "inf"
    THEN IF (a.k = "num" /\ a.m = 0) \/ (b.k = "num" /\ b.m = 0) THEN FNaN ELSE FInf
    ELSE IF a.m = 0 \/ b.m = 0 THEN FZero
    ELSE LET big == IF a.m >= b.m THEN a.m ELSE b.m
             c == IF a.m >= b.m THEN b.m ELSE a.m
             hi == big \div 4096
             lo == big % 4096
             T == hi * c + ((lo * c) \div 4096)
             L == (lo * c) % 4096
             e == a.e + b.e
         IN  IF T < Pow2(18)
             THEN RoundF(T * 4096 + L, e, FALSE)
             ELSE RoundF(T * 256 + (L \div 16), e + 4, L % 16 # 0)

\* q * 2^e + r * 2^e / d, extended bit by bit until it is exact or has the
\* bits that rounding needs.
RECURSIVE DivExt(_, _, _, _)
DivExt(q, r, d, e) ==
    IF r = 0 THEN RoundF(q, e, FALSE)
    ELSE IF q >= Pow2(FMantBits + 1) THEN RoundF(q, e, TRUE)
    ELSE LET bit == IF 2 * r >= d THEN 1 ELSE 0
         IN  DivExt(2 * q + bit, 2 * r - bit * d, d, e - 1)

\* a / b
FDiv(a, b) ==
    IF a.k = "nan" \/ b.k = "nan" THEN FNaN
    ELSE IF a.k = "inf" THEN (IF b.k = "inf" THEN FNaN ELSE FInf)
    ELSE IF b.k = "inf" THEN FZero
    ELSE IF b.m = 0 THEN (IF a.m = 0 THEN FNaN ELSE FInf)
    ELSE IF a.m = 0 THEN FZero
    ELSE DivExt(a.m \div b.m, a.m % b.m, b.m, a.e - b.e)

(***************************************************************************)
(* Simulation words.  An unsigned word is its four bytes, as               *)
(* Sim_UtilCountOnes reads it.                                             *)
(***************************************************************************)
WordBits == 32

RECURSIVE ByteOnes(_)
ByteOnes(b) == IF b = 0 THEN 0 ELSE (b % 2) + ByteOnes(b \div 2)

\* the word whose n low bits are set
LowBitsWord(n) ==
    [j \in 1..4 |->
        LET k == n - 8 * (j - 1)
        IN  IF k >= 8 THEN 255 ELSE IF k <= 0 THEN 0 ELSE Pow2(k) - 1]

WordNot(x) == [j \in 1..4 |-> 255 - x[j]]
WordAnd(x, y) ==
    [j \in 1..4 |->
        LET RECURSIVE BAnd(_, _, _)
            BAnd(p, q, n) ==
                IF n = 0 THEN 0
                ELSE (p % 2) * (q % 2) + 2 * BAnd(p \div 2, q \div 2, n - 1)
        IN  BAnd(x[j], y[j], 8)]

WordOnes(x) == ByteOnes(x[1]) + ByteOnes(x[2]) + ByteOnes(x[3]) + ByteOnes(x[4])

\* the words that buffers are filled from
SampleOnes == {0, 1, 16, 31, 32}
SampleWords == {LowBitsWord(n) : n \in SampleOnes}

RECURSIVE Sim_UtilCountOnes(_, _)
Sim_UtilCountOnes(pSimInfo, nSimWords) ==
    IF nSimWords <= 0 THEN 0
    ELSE WordOnes(pSimInfo[nSimWords]) + Sim_UtilCountOnes(pSimInfo, nSimWords - 1)

SIM_NUM_WORDS(n) == (n \div WordBits) + (IF n % WordBits > 0 THEN 1 ELSE 0)

Sim_ComputeSwitching_OffByOne(pSimInfo, nSimWords) ==
    LET nTotal == 32 * nSimWords
        nOnes == Sim_UtilCountOnes(pSimInfo, nSimWords)
    IN  FDiv(FMul(FDiv(FMul(IntToFloat(2), IntToFloat(nOnes)), IntToFloat(nTotal)),
                  IntToFloat(nTotal - nOnes + 1)), IntToFloat(nTotal))

\* lines 321-327
Sim_ComputeSwitching(pSimInfo, nSimWords) ==
    LET nTotal == 32 * nSimWords
        nOnes == Sim_UtilCountOnes(pSimInfo, nSimWords)
    IN  FDiv(FMul(FDiv(FMul(IntToFloat(2), IntToFloat(nOnes)), IntToFloat(nTotal)),
                  IntToFloat(nTotal - nOnes)), IntToFloat(nTotal))


(***************************************************************************)
(* The network, as the engine sees it through Abc_NtkForEachCi,            *)
(* Abc_NtkCiNum, Abc_NtkObjNumMax, Abc_AigDfs and pNtk->pName.  Object 0   *)
(* is the constant node of the AIG; an AND node is created after its       *)
(* fanins, so at least two combinational inputs have a smaller Id.         *)
(***************************************************************************)
RECURSIVE SortedSeq(_)
SortedSeq(S) ==
    IF S = {} THEN <<>>
    ELSE LET x == CHOOSE y \in S : \A z \in S : y <= z
         IN  <<x>> \o SortedSeq(S \ {x})

Orderings(S) ==
    {s \in [1..Cardinality(S) -> S] : \A a, b \in 1..Cardinality(S) : a # b => s[a] # s[b]}

SeqRange(s) == {s[j] : j \in 1..Len(s)}

NodeOrders == UNION {Orderings(N) : N \in SUBSET (1..(MaxObjNum - 1))}

Networks ==
    {[cis |-> SortedSeq(x[2]), dfs |-> x[3], nObjs |-> x[1], pName |-> x[4]] :
        x \in {y \in (1..MaxObjNum) \X (SUBSET (1..(MaxObjNum - 1)))
                      \X NodeOrders \X {"ntk", NullPtr} :
                /\ y[2] \subseteq 1..(y[1] - 1)
                /\ SeqRange(y[3]) \subseteq (1..(y[1] - 1)) \ y[2]
                /\ \A v \in SeqRange(y[3]) : Cardinality({c \in y[2] : c < v}) >= 2}}

Abc_NtkCiNum(ntk) == Len(ntk.cis)
Abc_NtkObjNumMax(ntk) == ntk.nObjs
Abc_AigDfs(ntk) == ntk.dfs

\* Vec_IntStart( n ): a vector of n entries, all zero
Vec_IntStart(n) == [nSize |-> n, pArray |-> [j \in 0..(n - 1) |-> FZero]]

(***************************************************************************)
(* Lines of a .switch file.  A record line "CI <idx>: ID=<id> <val>" or    *)
(* "Node <idx>: ID=<id> <val>" keeps its value as the text written; a      *)
(* comment line starts with '#'; a blank line is "\n".                     *)
(***************************************************************************)
NoFile == [exists |-> FALSE, lines |-> <<>>]
FileOf(lines) == [exists |-> TRUE, lines |-> lines]

CommentLine(n, num) == [kind |-> "#", idx |-> n, id |-> num, val |-> ""]
BlankLine == [kind |-> "blank", idx |-> 0, id |-> 0, val |-> ""]
RecLine(kind, i, id, v) == [kind |-> kind, idx |-> i, id |-> id, val |-> v]
JunkLine == [kind |-> "junk", idx |-> 0, id |-> 0, val |-> ""]
\* the line buffer before any fgets
UninitLine == [kind |-> "uninit", idx |-> 0, id |-> 0, val |-> ""]

IsRecord(line) == line.kind \in {"CI", "Node"}

\* the value texts that occur in files; "x" is no number
FloatTexts == {".5", "0.75", "1.5"}
ValueTexts == FloatTexts \cup {"x"}

\* %f: the decimal text converted to the nearest float
ParseFloat(txt) ==
    CASE txt = ".5" -> FDiv(IntToFloat(5), IntToFloat(10))
      [] txt = "0.75" -> FDiv(IntToFloat(75), IntToFloat(100))
      [] txt = "1.5" -> FDiv(IntToFloat(15), IntToFloat(10))

\* sscanf(buffer, "CI %*d: ID=%d %f", &id, &value): the number of fields stored
ScanCI(line) ==
    IF line.kind # "CI" THEN 0
    ELSE IF line.val \notin FloatTexts THEN 1
    ELSE 2

\* sscanf(buffer, " Node %*d : ID = %d %f ", &id, &value)
ScanNode(line) ==
    IF line.kind # "Node" THEN 0
    ELSE IF line.val \notin FloatTexts THEN 1
    ELSE 2

\* what an uninitialized line buffer may hold, and what a float read from
\* memory that was never written may be
GarbageLines == {JunkLine, RecLine("CI", 0, 0, ".5")}
GarbageFloats == {FZero, FNaN}

\* the int that the pointer returned by Vec_IntStart converts to (line 123)
PtrInts == (-1)..MaxPtrInt


(***************************************************************************)
(* State.                                                                  *)
(*   pNtk   the network                                                    *)
(*   disk   the file <pName>.switch: NoFile, or its lines                  *)
(*   edits  edits made to the file since it was written                    *)
(*   w      the frame of Sim_NtkWriteSwitchingTemplate                     *)
(*   ld     the frame of Sim_NtkLoadSwitching                              *)
(*   sm     the frame of Sim_NtkComputeSwitching                           *)
(*   mt     a call of Sim_ComputeSwitching on a buffer of its own          *)
(* "held" is the set of resources a frame has acquired and not released.   *)
(* The loader's frame also records what happened in the call: nTemplate    *)
(* and nOpen count the calls of the writer and of fopen, allocFailed       *)
(* tells that an allocation failed, oobStore that lines 178 or 210 stored  *)
(* outside the array, oobVec that a result entry past the vector's size    *)
(* was written, badRead that a slot never written was read, staleUse that  *)
(* a record was taken from a buffer that no fgets had just filled,         *)
(* nAssigned counts the assignments to each entry of the result.           *)
(***************************************************************************)
WIdle ==
    [pc |-> "idle", caller |-> "none", fileBaseName |-> NullPtr, i |-> 0,
     held |-> {}, ret |-> 0]

LIdle ==
    [pc |-> "idle", fileName |-> NullPtr, nNodes |-> 0, nCis |-> 0, i |-> 0,
     buffer |-> UninitLine, pos |-> 0, fresh |-> FALSE,
     Ci_Switching |-> <<>>, Node_Switching |-> <<>>,
     vSwitching |-> Vec_IntStart(0), ret |-> NullPtr, held |-> {},
     nTemplate |-> 0, nOpen |-> 0, allocFailed |-> FALSE,
     oobStore |-> FALSE, oobVec |-> FALSE, badRead |-> FALSE, staleUse |-> FALSE,
     nAssigned |-> [id \in 0..(MaxObjNum - 1) |-> 0]]

SIdle == [pc |-> "idle"]

MIdle == [pc |-> "idle"]

Idle == w.pc = "idle" /\ ld.pc = "idle"

(***************************************************************************)
(* Sim_NtkWriteSwitchingTemplate, lines 39-99.                             *)
(***************************************************************************)
\* the header, lines 71-74
TemplateHeader(ntk) ==
    << CommentLine(1, 0), CommentLine(2, 0), CommentLine(3, Abc_NtkCiNum(ntk)),
       CommentLine(4, Abc_NtkObjNumMax(ntk)), BlankLine >>


\* line 80
TemplateCiLine(i, Id) == RecLine("CI", i, Id - 1, ".5")

TemplateNodeLine_NoShift(i, Id) == RecLine("Node", i, Id, ".5")

\* line 89
TemplateNodeLine(i, Id) == RecLine("Node", i, Id - 1, ".5")

\* a caller asks for a template of the network under its own name
W_Call ==
    /\ Idle
    /\ w' = [WIdle EXCEPT !.pc = "open", !.caller = "user",
                          !.fileBaseName = pNtk.pName]
    /\ UNCHANGED <<pNtk, disk, edits, ld, sm, mt>>

\* lines 46-68: the base name is checked, the file name is allocated and the
\* file is opened for writing, which empties it; malloc and fopen each
\* succeed or fail
W_Open ==
    /\ w.pc = "open"
    /\ \/ /\ w.fileBaseName = NullPtr
          /\ w' = [w EXCEPT !.pc = "ret", !.ret = -1]
          /\ UNCHANGED <<disk, edits>>
       \/ /\ w.fileBaseName # NullPtr
          /\ w' = [w EXCEPT !.pc = "ret", !.ret = -1]
          /\ UNCHANGED <<disk, edits>>
       \/ /\ w.fileBaseName # NullPtr
          /\ w' = [w EXCEPT !.pc = "header", !.held = {"fileName", "pFile"}]
          /\ disk' = FileOf(<<>>)
          /\ edits' = 0
    /\ UNCHANGED <<pNtk, ld, sm, mt>>

\* lines 71-74
W_Header ==
    /\ w.pc = "header"
    /\ disk' = FileOf(disk.lines \o TemplateHeader(pNtk))
    /\ w' = [w EXCEPT !.pc = "ci", !.i = 0]
    /\ UNCHANGED <<pNtk, edits, ld, sm, mt>>

\* lines 78-81, one iteration
W_WriteCi ==
    /\ w.pc = "ci"
    /\ w.i < Abc_NtkCiNum(pNtk)
    /\ disk' = FileOf(Append(disk.lines, TemplateCiLine(w.i, pNtk.cis[w.i + 1])))
    /\ w' = [w EXCEPT !.i = @ + 1]
    /\ UNCHANGED <<pNtk, edits, ld, sm, mt>>

\* line 86
W_Dfs ==
    /\ w.pc = "ci"
    /\ w.i >= Abc_NtkCiNum(pNtk)
    /\ w' = [w EXCEPT !.pc = "node", !.i = 0, !.held = @ \cup {"vNodes"}]
    /\ UNCHANGED <<pNtk, disk, edits, ld, sm, mt>>

\* lines 87-90, one iteration
W_WriteNode ==
    /\ w.pc = "node"
    /\ w.i < Len(Abc_AigDfs(pNtk))
    /\ disk' = FileOf(Append(disk.lines, TemplateNodeLine(w.i, Abc_AigDfs(pNtk)[w.i + 1])))
    /\ w' = [w EXCEPT !.i = @ + 1]
    /\ UNCHANGED <<pNtk, edits, ld, sm, mt>>

\* lines 93-98
W_Close ==
    /\ w.pc = "node"
    /\ w.i >= Len(Abc_AigDfs(pNtk))
    /\ w' = [w EXCEPT !.pc = "ret", !.ret = 0,
                      !.held = @ \ {"vNodes", "pFile", "fileName"}]
    /\ UNCHANGED <<pNtk, disk, edits, ld, sm, mt>>

\* the call made by a user returns
W_Return ==
    /\ w.pc = "ret"
    /\ w.caller = "user"
    /\ w' = WIdle
    /\ UNCHANGED <<pNtk, disk, edits, ld, sm, mt>>

(***************************************************************************)
(* The user edits the file between the calls.                              *)
(***************************************************************************)
\* the first line at or after position k + 1 that is neither a comment nor
\* blank: the number of lines fgets has returned when the loop of lines
\* 154-158 ends
RECURSIVE SkipHeader(_, _)
SkipHeader(f, k) ==
    IF k >= Len(f) THEN k
    ELSE IF f[k + 1].kind \in {"#", "blank"} THEN SkipHeader(f, k + 1)
    ELSE k + 1

\* the number of comment and blank lines the file starts with
LeadingComments(f) ==
    LET k == SkipHeader(f, 0)
    IN  IF k > 0 /\ f[k].kind \notin {"#", "blank"} THEN k - 1 ELSE k

RecordPositions(f) == {k \in 1..Len(f) : IsRecord(f[k])}

CanEdit == Idle /\ disk.exists /\ edits < MaxEdits

\* the value of one record is replaced
E_SetValue ==
    /\ CanEdit
    /\ \E k \in RecordPositions(disk.lines), v \in ValueTexts :
          /\ v # disk.lines[k].val
          /\ disk' = [disk EXCEPT !.lines[k].val = v]
    /\ edits' = edits + 1
    /\ UNCHANGED <<pNtk, w, ld, sm, mt>>

\* the ID field of one record is changed
E_SetId ==
    /\ CanEdit
    /\ \E k \in RecordPositions(disk.lines), id \in (-1)..MaxObjNum :
          /\ id # disk.lines[k].id
          /\ disk' = [disk EXCEPT !.lines[k].id = id]
    /\ edits' = edits + 1
    /\ UNCHANGED <<pNtk, w, ld, sm, mt>>

\* the file is cut after its first k lines: to nothing, or somewhere from
\* the end of its leading comments on (a cut inside the leading comments
\* leaves a file of comments only, as the cut at their end does)
E_Truncate ==
    /\ CanEdit
    /\ \E k \in {0} \cup (LeadingComments(disk.lines)..(Len(disk.lines) - 1)) :
          disk' = FileOf(SubSeq(disk.lines, 1, k))
    /\ edits' = edits + 1
    /\ UNCHANGED <<pNtk, w, ld, sm, mt>>

InsertAfter(f, k, line) == SubSeq(f, 1, k) \o <<line>> \o SubSeq(f, k + 1, Len(f))

\* a comment or a blank line is put after the first k lines: at the end of
\* the leading comments (which stands for any place among them) or later
E_InsertComment ==
    /\ CanEdit
    /\ \E k \in LeadingComments(disk.lines)..Len(disk.lines),
          line \in {CommentLine(0, 0), BlankLine} :
          disk' = FileOf(InsertAfter(disk.lines, k, line))
    /\ edits' = edits + 1
    /\ UNCHANGED <<pNtk, w, ld, sm, mt>>

\* one record is written twice
E_RepeatRecord ==
    /\ CanEdit
    /\ \E k \in RecordPositions(disk.lines) :
          disk' = FileOf(InsertAfter(disk.lines, k, disk.lines[k]))
    /\ edits' = edits + 1
    /\ UNCHANGED <<pNtk, w, ld, sm, mt>>

(***************************************************************************)
(* Sim_NtkLoadSwitching, lines 111-255.                                    *)
(***************************************************************************)
SwitchFile == "ntk.switch"

\* a failing return: the named resources are released, NULL is returned
LdFail(l, released) ==
    [l EXCEPT !.pc = "done", !.ret = NullPtr, !.held = @ \ released]

Fgets_SkipsComments(l) ==
    LET k == SkipHeader(disk.lines, l.pos)
    IN  IF k > l.pos /\ disk.lines[k].kind \notin {"#", "blank"}
        THEN [l EXCEPT !.buffer = disk.lines[k], !.pos = k, !.fresh = TRUE]
        ELSE [l EXCEPT !.pos = k, !.fresh = FALSE]

\* fgets( buffer, sizeof(buffer), pFile ) at lines 179 and 213: at end of
\* file the buffer keeps the line it held
Fgets(l) ==
    IF l.pos < Len(disk.lines)
    THEN [l EXCEPT !.buffer = disk.lines[l.pos + 1], !.pos = @ + 1, !.fresh = TRUE]
    ELSE [l EXCEPT !.fresh = FALSE]

\* the line that sscanf sees in the buffer
BufferLines(l) == IF l.buffer = UninitLine THEN GarbageLines ELSE {l.buffer}

\* lines 122-123: the DFS vector is built, and nNodes receives the pointer
\* that Vec_IntStart returns, converted to int
L_Enter ==
    /\ Idle
    /\ \E fn \in {NullPtr, SwitchFile}, n \in PtrInts :
          ld' = [LIdle EXCEPT !.pc = "checkName", !.fileName = fn, !.nNodes = n,
                              !.held = {"vNodes", "vEntry"}]
    /\ UNCHANGED <<pNtk, disk, edits, w, sm, mt>>

\* lines 125-128: no file name, the template is written instead
L_NoFileName ==
    /\ ld.pc = "checkName"
    /\ ld.fileName = NullPtr
    /\ ld' = [ld EXCEPT !.pc = "inTemplate", !.nTemplate = @ + 1]
    /\ w' = [WIdle EXCEPT !.pc = "open", !.caller = "load",
                          !.fileBaseName = pNtk.pName]
    /\ UNCHANGED <<pNtk, disk, edits, sm, mt>>

L_TemplateReturned_GoesOn ==
    /\ ld.pc = "inTemplate"
    /\ w.pc = "ret"
    /\ ld' = IF ~disk.exists
             THEN LdFail([ld EXCEPT !.nOpen = @ + 1], {})
             ELSE [ld EXCEPT !.pc = "alloc", !.nOpen = @ + 1, !.held = @ \cup {"pFile"}]
    /\ UNCHANGED <<pNtk, disk, edits, w, sm, mt>>

\* line 129
L_TemplateReturned ==
    /\ ld.pc = "inTemplate"
    /\ w.pc = "ret"
    /\ ld' = LdFail(ld, {})
    /\ UNCHANGED <<pNtk, disk, edits, w, sm, mt>>

\* lines 125 and 133-138: with a file name, the file is opened for reading
L_Open ==
    /\ ld.pc = "checkName"
    /\ ld.fileName # NullPtr
    /\ ld' = IF ~disk.exists
             THEN LdFail([ld EXCEPT !.nOpen = @ + 1], {})
             ELSE [ld EXCEPT !.pc = "alloc", !.nOpen = @ + 1, !.held = @ \cup {"pFile"}]
    /\ UNCHANGED <<pNtk, disk, edits, w, sm, mt>>

\* lines 141-150: each malloc succeeds or fails; a negative nNodes converts
\* to a size no malloc grants
L_Alloc ==
    /\ ld.pc = "alloc"
    /\ \E okCi \in BOOLEAN, okNode \in (IF ld.nNodes < 0 THEN {FALSE} ELSE BOOLEAN) :
          LET nCis == Abc_NtkCiNum(pNtk)
              got == [ld EXCEPT
                        !.nCis = nCis,
                        !.Ci_Switching =
                            IF okCi THEN [j \in 0..(nCis - 1) |-> FUninit] ELSE <<>>,
                        !.Node_Switching =
                            IF okNode THEN [j \in 0..(ld.nNodes - 1) |-> FUninit] ELSE <<>>,
                        !.held = @ \cup (IF okCi THEN {"Ci_Switching"} ELSE {})
                                   \cup (IF okNode THEN {"Node_Switching"} ELSE {})]
          IN  ld' = IF okCi /\ okNode
                    THEN [got EXCEPT !.pc = "skip"]
                    ELSE LdFail([got EXCEPT !.allocFailed = TRUE], {"pFile"})
    /\ UNCHANGED <<pNtk, disk, edits, w, sm, mt>>

\* lines 153-158: the whole loop
L_SkipHeader ==
    /\ ld.pc = "skip"
    /\ LET k == SkipHeader(disk.lines, 0)
           stopped == k > 0 /\ disk.lines[k].kind \notin {"#", "blank"}
       IN  ld' = [ld EXCEPT
                    !.pc = IF ld.nCis > 0 THEN "readCi"
                           ELSE IF Len(Abc_AigDfs(pNtk)) > 0 THEN "readNode" ELSE "close",
                    !.i = 0,
                    !.pos = k,
                    !.buffer = IF k = 0 THEN UninitLine ELSE disk.lines[k],
                    !.fresh = stopped]
    /\ UNCHANGED <<pNtk, disk, edits, w, sm, mt>>

\* lines 161-187, one iteration
L_ReadCi ==
    /\ ld.pc = "readCi"
    /\ \E line \in BufferLines(ld) :
          IF ScanCI(line) # 2
          THEN ld' = LdFail(ld, {"Ci_Switching", "Node_Switching", "pFile"})
          ELSE LET id == line.id
                   inb == id >= 0 /\ id < ld.nCis
                   stored == [ld EXCEPT
                                !.Ci_Switching =
                                    IF inb THEN [@ EXCEPT ![id] = ParseFloat(line.val)] ELSE @,
                                !.oobStore = @ \/ ~inb,
                                !.staleUse = @ \/ ~ld.fresh]
                   next == Fgets(stored)
               IN  \/ /\ ~inb
                      /\ ld' = [stored EXCEPT !.pc = "crashed"]
                   \/ ld' = IF ~next.fresh /\ ld.i < ld.nCis - 1
                            THEN LdFail(next, {"Ci_Switching", "Node_Switching", "pFile"})
                            ELSE IF ld.i + 1 < ld.nCis
                            THEN [next EXCEPT !.i = @ + 1]
                            ELSE [next EXCEPT !.i = 0,
                                    !.pc = IF Len(Abc_AigDfs(pNtk)) > 0
                                           THEN "readNode" ELSE "close"]
    /\ UNCHANGED <<pNtk, disk, edits, w, sm, mt>>

\* lines 191-221, one iteration
L_ReadNode ==
    /\ ld.pc = "readNode"
    /\ \E line \in BufferLines(ld) :
          IF ScanNode(line) # 2
          THEN ld' = LdFail(ld, {"Ci_Switching", "Node_Switching", "pFile"})
          ELSE LET id == line.id
                   inb == id >= 0 /\ id < ld.nNodes
                   stored == [ld EXCEPT
                                !.Node_Switching =
                                    IF inb THEN [@ EXCEPT ![id] = ParseFloat(line.val)] ELSE @,
                                !.oobStore = @ \/ ~inb,
                                !.staleUse = @ \/ ~ld.fresh]
                   next == Fgets(stored)
               IN  \/ /\ ~inb
                      /\ ld' = [stored EXCEPT !.pc = "crashed"]
                   \/ ld' = IF ~next.fresh /\ ld.i < ld.nNodes - 1
                            THEN LdFail(next, {"Ci_Switching", "Node_Switching", "pFile"})
                            ELSE IF ld.i + 1 < Len(Abc_AigDfs(pNtk))
                            THEN [next EXCEPT !.i = @ + 1]
                            ELSE [next EXCEPT !.i = 0, !.pc = "close"]
    /\ UNCHANGED <<pNtk, disk, edits, w, sm, mt>>

\* lines 222-233: the file is closed and the result vector is created, or
\* its allocation fails
L_Close ==
    /\ ld.pc = "close"
    /\ \/ ld' = [ld EXCEPT
                    !.pc = IF ld.nCis > 0 THEN "assignCi" ELSE "dfs",
                    !.i = 0,
                    !.vSwitching = Vec_IntStart(ld.nNodes),
                    !.held = (@ \ {"pFile"}) \cup {"vSwitching"}]
       \/ ld' = LdFail([ld EXCEPT !.allocFailed = TRUE],
                        {"pFile", "Ci_Switching", "Node_Switching"})
    /\ UNCHANGED <<pNtk, disk, edits, w, sm, mt>>

\* the float read from slot j of a temporary array
SlotValues(arr, j) ==
    IF j \in DOMAIN arr /\ arr[j] # FUninit THEN {arr[j]} ELSE GarbageFloats

\* pSwitching[Id] = value; a write past the vector's entries either is lost
\* or stops the program
StoreEntry(l, Id, value, nextpc, nexti) ==
    IF Id < l.vSwitching.nSize
    THEN {[l EXCEPT !.vSwitching.pArray[Id] = value, !.nAssigned[Id] = @ + 1,
                    !.pc = nextpc, !.i = nexti]}
    ELSE {[l EXCEPT !.oobVec = TRUE, !.pc = nextpc, !.i = nexti],
          [l EXCEPT !.oobVec = TRUE, !.pc = "crashed"]}

\* lines 236-239, one iteration
L_AssignCi ==
    /\ ld.pc = "assignCi"
    /\ \E value \in SlotValues(ld.Ci_Switching, ld.i) :
          LET read == [ld EXCEPT !.badRead = @ \/ ld.Ci_Switching[ld.i] = FUninit]
              last == ld.i + 1 >= ld.nCis
          IN  ld' \in StoreEntry(read, pNtk.cis[ld.i + 1], value,
                                 IF last THEN "dfs" ELSE "assignCi",
                                 IF last THEN 0 ELSE ld.i + 1)
    /\ UNCHANGED <<pNtk, disk, edits, w, sm, mt>>

\* line 242: a second DFS vector replaces the pointer to the first
L_Dfs ==
    /\ ld.pc = "dfs"
    /\ ld' = [ld EXCEPT !.held = @ \cup {"vNodes2"}, !.i = 0,
                        !.pc = IF Len(Abc_AigDfs(pNtk)) > 0 THEN "assignNode" ELSE "finish"]
    /\ UNCHANGED <<pNtk, disk, edits, w, sm, mt>>


\* lines 246-247: the slot of Node_Switching read for the node
NodeSlot(Id) == Id

\* lines 243-248, one iteration
L_AssignNode ==
    /\ ld.pc = "assignNode"
    /\ LET Id == Abc_AigDfs(pNtk)[ld.i + 1]
           slot == NodeSlot(Id)
           last == ld.i + 1 >= Len(Abc_AigDfs(pNtk))
       IN  \E value \in SlotValues(ld.Node_Switching, slot) :
              LET read == [ld EXCEPT
                              !.badRead = @ \/ slot \notin DOMAIN ld.Node_Switching
                                           \/ ld.Node_Switching[slot] = FUninit]
              IN  ld' \in StoreEntry(read, Id, value,
                                     IF last THEN "finish" ELSE "assignNode",
                                     IF last THEN 0 ELSE ld.i + 1)
    /\ UNCHANGED <<pNtk, disk, edits, w, sm, mt>>

\* lines 251-254
L_Finish ==
    /\ ld.pc = "finish"
    /\ ld' = [ld EXCEPT !.pc = "done", !.ret = "vSwitching",
                        !.held = @ \ {"vNodes2", "Ci_Switching", "Node_Switching"}]
    /\ UNCHANGED <<pNtk, disk, edits, w, sm, mt>>

(***************************************************************************)
(* The persistence path: templates are written, edited and loaded.         *)
(***************************************************************************)
Init ==
    /\ pNtk \in Networks
    /\ disk = NoFile
    /\ edits = 0
    /\ w = WIdle
    /\ ld = LIdle
    /\ sm = SIdle
    /\ mt = MIdle

Next ==
    \/ W_Call \/ W_Open \/ W_Header
    \/ W_WriteCi \/ W_Dfs \/ W_WriteNode \/ W_Close \/ W_Return
    \/ E_SetValue \/ E_SetId \/ E_Truncate \/ E_InsertComment \/ E_RepeatRecord
    \/ L_Enter \/ L_NoFileName \/ L_TemplateReturned
    \/ L_Open \/ L_Alloc \/ L_SkipHeader \/ L_ReadCi \/ L_ReadNode
    \/ L_Close \/ L_AssignCi \/ L_Dfs \/ L_AssignNode \/ L_Finish

Spec == Init /\ [][Next]_vars


(***************************************************************************)
(* Sim_NtkComputeSwitching, lines 272-308, on an AIG whose every internal  *)
(* node has two fanins that precede it in the DFS order, each edge plain   *)
(* or complemented.                                                        *)
(***************************************************************************)
MaxRunWords == 1     \* largest nSimWords of a simulation run

\* the words Sim_UtilSetRandom draws
RandomWords == {LowBitsWord(0), LowBitsWord(16), LowBitsWord(32)}

\* pattern counts at both ends of every word count
PatternCounts == {n \in 0..(WordBits * MaxRunWords) : n % WordBits \in {0, 1}}

FaninChoices(ntk) ==
    {f \in [SeqRange(ntk.dfs) ->
              [id0 : 1..(MaxObjNum - 1), c0 : BOOLEAN, id1 : 1..(MaxObjNum - 1), c1 : BOOLEAN]] :
        \A j \in 1..Len(ntk.dfs) :
            LET v == ntk.dfs[j]
                before == SeqRange(ntk.cis) \cup {ntk.dfs[h] : h \in 1..(j - 1)}
            IN  /\ f[v].id0 \in before /\ f[v].id1 \in before
                /\ f[v].id0 < f[v].id1 /\ f[v].id1 < v}

SimNetworks ==
    UNION {{[cis |-> n.cis, dfs |-> n.dfs, nObjs |-> n.nObjs, pName |-> n.pName,
             fanin |-> f] : f \in FaninChoices(n)} :
           n \in {m \in Networks : m.pName # NullPtr}}

\* Sim_UtilInfoAlloc( nSize, nWords, 0 ): nSize buffers of nWords words.
\* With fClean = 0 the words are not cleared: what a buffer holds before it
\* is written is given by ReadBuffer.
Sim_UtilInfoAlloc(nSize, nWords) ==
    [id \in 0..(nSize - 1) |-> [j \in 1..nWords |-> LowBitsWord(0)]]

\* Sim_UtilSimulateNodeOne: the AND of the two fanin buffers, each
\* complemented when its edge is
Sim_UtilSimulateNodeOne(fi, vSimInfo, nSimWords) ==
    [j \in 1..nSimWords |->
        WordAnd(IF fi.c0 THEN WordNot(vSimInfo[fi.id0][j]) ELSE vSimInfo[fi.id0][j],
                IF fi.c1 THEN WordNot(vSimInfo[fi.id1][j]) ELSE vSimInfo[fi.id1][j])]

\* The frame also records what happened in the call: written is the set of
\* buffers filled so far, nSimulated counts the simulations of each object
\* and nAssigned the assignments to each entry of the result,
\* readUnwritten tells that a buffer was read before it was written,
\* released counts the releases of each resource and usedAfterFree tells
\* that a buffer was touched after the store was released.
SStart ==
    [pc |-> "call", nPatterns |-> 0, nSimWords |-> 0, i |-> 0,
     vSimInfo |-> <<>>, written |-> {}, vSwitching |-> Vec_IntStart(0),
     held |-> {}, ret |-> NullPtr, zeroWords |-> FALSE,
     nSimulated |-> [id \in 0..(MaxObjNum - 1) |-> 0], readUnwritten |-> FALSE,
     nAssigned |-> [id \in 0..(MaxObjNum - 1) |-> 0],
     released |-> [r \in {"vSimInfo", "vNodes", "vSwitching"} |-> 0],
     usedAfterFree |-> FALSE]

\* the words read from buffer id: those written there, or whatever the
\* memory held
ReadBuffer(s, id) ==
    IF id \in s.written THEN {s.vSimInfo[id]} ELSE [1..s.nSimWords -> RandomWords]

\* lines 283-287
S_Enter ==
    /\ sm.pc = "call"
    /\ \E nPatterns \in PatternCounts :
          LET nSimWords == SIM_NUM_WORDS(nPatterns)
          IN  sm' = [sm EXCEPT !.pc = "ci", !.nPatterns = nPatterns,
                               !.nSimWords = nSimWords, !.i = 0,
                               !.vSimInfo = Sim_UtilInfoAlloc(Abc_NtkObjNumMax(pNtk), nSimWords),
                               !.vSwitching = Vec_IntStart(Abc_NtkObjNumMax(pNtk)),
                               !.held = {"vSimInfo", "vSwitching"}]
    /\ UNCHANGED <<pNtk, disk, edits, w, ld, mt>>

S_SimCi_NoRandom ==
    /\ sm.pc = "ci"
    /\ sm.i < Abc_NtkCiNum(pNtk)
    /\ LET Id == pNtk.cis[sm.i + 1]
       IN  \E pSimInfo \in ReadBuffer(sm, Id) :
              sm' = [sm EXCEPT !.vSwitching.pArray[Id] =
                                   Sim_ComputeSwitching(pSimInfo, sm.nSimWords),
                               !.readUnwritten = @ \/ Id \notin sm.written,
                               !.zeroWords = @ \/ sm.nSimWords = 0,
                               !.i = @ + 1]
    /\ UNCHANGED <<pNtk, disk, edits, w, ld, mt>>

\* lines 288-293, one iteration
S_SimCi ==
    /\ sm.pc = "ci"
    /\ sm.i < Abc_NtkCiNum(pNtk)
    /\ \E pSimInfo \in [1..sm.nSimWords -> RandomWords] :
          LET Id == pNtk.cis[sm.i + 1]
          IN  sm' = [sm EXCEPT !.vSimInfo[Id] = pSimInfo,
                               !.written = @ \cup {Id},
                               !.usedAfterFree = @ \/ sm.released["vSimInfo"] > 0,
                               !.nAssigned[Id] = @ + 1,
                               !.vSwitching.pArray[Id] =
                                   Sim_ComputeSwitching(pSimInfo, sm.nSimWords),
                               !.zeroWords = @ \/ sm.nSimWords = 0,
                               !.i = @ + 1]
    /\ UNCHANGED <<pNtk, disk, edits, w, ld, mt>>

\* line 295
S_Dfs ==
    /\ sm.pc = "ci"
    /\ sm.i >= Abc_NtkCiNum(pNtk)
    /\ sm' = [sm EXCEPT !.pc = "node", !.i = 0, !.held = @ \cup {"vNodes"}]
    /\ UNCHANGED <<pNtk, disk, edits, w, ld, mt>>

\* lines 296-304, one iteration
S_SimNode ==
    /\ sm.pc = "node"
    /\ sm.i < Len(Abc_AigDfs(pNtk))
    /\ LET Id == Abc_AigDfs(pNtk)[sm.i + 1]
           fi == pNtk.fanin[Id]
       IN  \E b0 \in ReadBuffer(sm, fi.id0), b1 \in ReadBuffer(sm, fi.id1) :
              LET seen == [sm.vSimInfo EXCEPT ![fi.id0] = b0, ![fi.id1] = b1]
                  pSimInfo == Sim_UtilSimulateNodeOne(fi, seen, sm.nSimWords)
              IN  sm' = [sm EXCEPT !.vSimInfo[Id] = pSimInfo,
                                   !.written = @ \cup {Id},
                                   !.nSimulated[Id] = @ + 1,
                                   !.nAssigned[Id] = @ + 1,
                                   !.usedAfterFree = @ \/ sm.released["vSimInfo"] > 0,
                                   !.readUnwritten =
                                       @ \/ ~({fi.id0, fi.id1} \subseteq sm.written),
                                   !.vSwitching.pArray[Id] =
                                       Sim_ComputeSwitching(pSimInfo, sm.nSimWords),
                                   !.zeroWords = @ \/ sm.nSimWords = 0,
                                   !.i = @ + 1]
    /\ UNCHANGED <<pNtk, disk, edits, w, ld, mt>>

S_Finish_LeaksStore ==
    /\ sm.pc = "node"
    /\ sm.i >= Len(Abc_AigDfs(pNtk))
    /\ sm' = [sm EXCEPT !.pc = "done", !.ret = "vSwitching",
                        !.held = @ \ {"vNodes"},
                        !.released["vNodes"] = @ + 1]
    /\ UNCHANGED <<pNtk, disk, edits, w, ld, mt>>

\* lines 305-307
S_Finish ==
    /\ sm.pc = "node"
    /\ sm.i >= Len(Abc_AigDfs(pNtk))
    /\ sm' = [sm EXCEPT !.pc = "done", !.ret = "vSwitching",
                        !.held = @ \ {"vNodes", "vSimInfo"},
                        !.released["vNodes"] = @ + 1,
                        !.released["vSimInfo"] = @ + 1]
    /\ UNCHANGED <<pNtk, disk, edits, w, ld, mt>>

SimInit ==
    /\ pNtk \in SimNetworks
    /\ disk = NoFile
    /\ edits = 0
    /\ w = WIdle
    /\ ld = LIdle
    /\ sm = SStart
    /\ mt = MIdle

SimNext == S_Enter \/ S_SimCi \/ S_Dfs \/ S_SimNode \/ S_Finish

SpecSim == SimInit /\ [][SimNext]_vars

(***************************************************************************)
(* Sim_ComputeSwitching on a buffer and on the same buffer with every bit  *)
(* flipped.                                                                *)
(***************************************************************************)
NoNtk == [cis |-> <<>>, dfs |-> <<>>, nObjs |-> 1, pName |-> NullPtr]

BufferNot(pSimInfo) == [j \in DOMAIN pSimInfo |-> WordNot(pSimInfo[j])]

M_Compute ==
    /\ mt.pc = "call"
    /\ mt' = [mt EXCEPT !.pc = "flip",
                        !.res = Sim_ComputeSwitching(mt.pSimInfo, mt.nSimWords)]
    /\ UNCHANGED <<pNtk, disk, edits, w, ld, sm>>

M_ComputeFlipped ==
    /\ mt.pc = "flip"
    /\ mt' = [mt EXCEPT !.pc = "done",
                        !.resNot = Sim_ComputeSwitching(BufferNot(mt.pSimInfo), mt.nSimWords)]
    /\ UNCHANGED <<pNtk, disk, edits, w, ld, sm>>

MetricInit ==
    /\ pNtk = NoNtk
    /\ disk = NoFile
    /\ edits = 0
    /\ w = WIdle
    /\ ld = LIdle
    /\ sm = SIdle
    /\ \E n \in 0..MaxSimWords :
          \E buf \in [1..n -> SampleWords] :
              mt = [pc |-> "call", nSimWords |-> n, pSimInfo |-> buf,
                    res |-> FUninit, resNot |-> FUninit]

MetricNext == M_Compute \/ M_ComputeFlipped

SpecMetric == MetricInit /\ [][MetricNext]_vars


(***************************************************************************)
(* Properties.                                                             *)
(***************************************************************************)
HeaderLen == Len(TemplateHeader(pNtk))
nCiObjs == Len(pNtk.cis)
nDfsObjs == Len(pNtk.dfs)
HalfFloat == Canon(1, -1)

CountKind(f, kind) == Cardinality({k \in 1..Len(f) : f[k].kind = kind})

\* the file is the template of the network with every value replaced by a
\* number: indices and ID fields are those the writer wrote
ValueEditedTemplate ==
    /\ disk.exists
    /\ Len(disk.lines) = HeaderLen + nCiObjs + nDfsObjs
    /\ \A k \in 1..HeaderLen : disk.lines[k].kind \in {"#", "blank"}
    /\ \A i \in 0..(nCiObjs - 1) :
          LET line == disk.lines[HeaderLen + 1 + i]
          IN  /\ line.kind = "CI" /\ line.idx = i /\ line.id = pNtk.cis[i + 1] - 1
              /\ line.val \in FloatTexts
    /\ \A i \in 0..(nDfsObjs - 1) :
          LET line == disk.lines[HeaderLen + nCiObjs + 1 + i]
          IN  /\ line.kind = "Node" /\ line.idx = i /\ line.id = pNtk.dfs[i + 1] - 1
              /\ line.val \in FloatTexts

EntryIs(Id, value) ==
    /\ Id < ld.vSwitching.nSize
    /\ ld.vSwitching.pArray[Id] = value

LoadEnded == ld.pc \in {"done", "crashed"}

\* C1: loading a template whose values were replaced returns a vector that
\* holds, at every combinational input and every DFS node, the value
\* written on that object's line.
C1_RoundTrip ==
    (LoadEnded /\ ld.fileName # NullPtr /\ ~ld.allocFailed /\ ValueEditedTemplate)
    => /\ ld.pc = "done" /\ ld.ret = "vSwitching"
       /\ \A i \in 0..(nCiObjs - 1) :
             EntryIs(pNtk.cis[i + 1], ParseFloat(disk.lines[HeaderLen + 1 + i].val))
       /\ \A i \in 0..(nDfsObjs - 1) :
             EntryIs(pNtk.dfs[i + 1],
                     ParseFloat(disk.lines[HeaderLen + nCiObjs + 1 + i].val))

\* a record of the file names an ID outside the array it indexes
FileHasBadId ==
    /\ disk.exists
    /\ \E k \in 1..Len(disk.lines) :
          \/ disk.lines[k].kind = "CI"
             /\ (disk.lines[k].id < 0 \/ disk.lines[k].id >= nCiObjs)
          \/ disk.lines[k].kind = "Node"
             /\ (disk.lines[k].id < 0 \/ disk.lines[k].id >= ld.nNodes)

\* C2: no ID read from the file is used as an index outside its array, and
\* a file with such an ID makes the load return no result.
C2_IdsChecked ==
    /\ ~ld.oobStore
    /\ (LoadEnded /\ ld.fileName # NullPtr /\ FileHasBadId)
       => (ld.pc = "done" /\ ld.ret = NullPtr)

\* the file has fewer CI lines or fewer Node lines than the network has
\* objects of that kind
FileTruncated ==
    /\ disk.exists
    /\ \/ CountKind(disk.lines, "CI") < nCiObjs
       \/ CountKind(disk.lines, "Node") < nDfsObjs

\* C3: a file that ends before all expected records are present is never
\* loaded: no vector is returned and no record is taken from a line buffer
\* that was not freshly read.
C3_TruncatedFails ==
    (ld.pc # "idle" /\ ld.fileName # NullPtr /\ FileTruncated)
    => /\ ~ld.staleUse
       /\ LoadEnded => (ld.pc = "done" /\ ld.ret = NullPtr)

\* C4: a load succeeds only on a file with exactly as many CI lines as the
\* network has combinational inputs and as many Node lines as it has
\* internal DFS nodes.
C4_ExactCounts ==
    (ld.pc = "done" /\ ld.ret # NullPtr)
    => /\ CountKind(disk.lines, "CI") = nCiObjs
       /\ CountKind(disk.lines, "Node") = nDfsObjs

\* C5: on every failing return of the loader everything the call acquired
\* has been released.
C5_FailureReleasesAll ==
    (ld.pc = "done" /\ ld.ret = NullPtr) => (ld.held = {} /\ w.held = {})

\* C6: without a file name the loader calls the writer exactly once, with
\* the network's own name, opens no file for reading and returns no
\* result, whatever the writer returned.
C6_NoFileNameWritesTemplate ==
    (ld.pc # "idle" /\ ld.fileName = NullPtr)
    => /\ ld.nOpen = 0
       /\ ld.nTemplate <= 1
       /\ ld.pc = "done"
          => /\ ld.nTemplate = 1
             /\ w.caller = "load" /\ w.pc = "ret" /\ w.fileBaseName = pNtk.pName
             /\ ld.ret = NullPtr

C6_Witness ==
    /\ ld.pc = "done" /\ ld.fileName = NullPtr
    /\ pNtk.pName # NullPtr /\ w.ret = -1 /\ ~disk.exists

AllBits(pSimInfo, nSimWords, n) ==
    \A j \in 1..nSimWords : WordOnes(pSimInfo[j]) = n

\* C8: on a buffer of one or more words whose bits are all 0 or all 1 the
\* metric is exactly 0.
C8_ConstantBufferIsZero ==
    (/\ mt.pc \in {"flip", "done"}
     /\ mt.nSimWords >= 1
     /\ \/ AllBits(mt.pSimInfo, mt.nSimWords, 0)
        \/ AllBits(mt.pSimInfo, mt.nSimWords, WordBits))
    => mt.res = FZero

C8_Witness ==
    /\ mt.pc = "done"
    /\ mt.nSimWords = MaxSimWords
    /\ AllBits(mt.pSimInfo, mt.nSimWords, WordBits)
    /\ mt.res = FZero /\ mt.resNot = FZero

\* C9: the metric of a buffer of one or more words equals the metric of
\* the buffer with every bit flipped.
C9_FlipInvariant ==
    (mt.pc = "done" /\ mt.nSimWords >= 1) => mt.res = mt.resNot

\* C10: Sim_NtkComputeSwitching never calls Sim_ComputeSwitching with
\* nSimWords = 0.
C10_NoZeroWordCall == ~sm.zeroWords

\* a float that is a number between 0 and 1
IsProbability(f) ==
    /\ f.k = "num"
    /\ \/ f.m = 0
       \/ /\ f.e <= 0
          /\ (-f.e >= FMantBits \/ f.m <= Pow2(-f.e))

\* C11: every entry of a vector returned by Sim_NtkLoadSwitching or by
\* Sim_NtkComputeSwitching is a probability in [0, 1].
C11_EntriesAreProbabilities ==
    /\ (ld.pc = "done" /\ ld.ret # NullPtr)
       => \A j \in DOMAIN ld.vSwitching.pArray : IsProbability(ld.vSwitching.pArray[j])
    /\ sm.pc = "done"
       => \A j \in DOMAIN sm.vSwitching.pArray : IsProbability(sm.vSwitching.pArray[j])

HeaderSkipped == SkipHeader(disk.lines, 0)

\* a comment or blank line stands where a record is expected, after the
\* first record and before the last expected one
CommentBetweenRecords ==
    /\ disk.exists
    /\ HeaderSkipped >= 1
    /\ disk.lines[HeaderSkipped].kind \notin {"#", "blank"}
    /\ \E p \in (HeaderSkipped + 1)..Len(disk.lines) :
          /\ disk.lines[p].kind \in {"#", "blank"}
          /\ p - HeaderSkipped < nCiObjs + nDfsObjs

\* the records parsed so far by the two read loops
RecordsParsed == IF ld.pc = "readCi" THEN ld.i ELSE ld.nCis + ld.i

\* C13: comment and blank lines are skipped only before the first other
\* line: while records are read, the buffer holds the line that directly
\* follows the previous record's line, and a file with a comment or blank
\* line between two expected records is never loaded (a load that got past
\* the read loops, or returned a vector, read no such file).
C13_CommentsOnlyAsPrefix ==
    /\ ld.pc \in {"readCi", "readNode"}
       => LET k == HeaderSkipped
          IN  k >= 1
              => /\ ld.pos = (IF k + RecordsParsed <= Len(disk.lines)
                              THEN k + RecordsParsed ELSE Len(disk.lines))
                 /\ ld.buffer = disk.lines[ld.pos]
    /\ (\/ ld.ret # NullPtr
        \/ ld.pc \in {"close", "assignCi", "dfs", "assignNode", "finish"})
       => ~(ld.fileName # NullPtr /\ CommentBetweenRecords)

C13_Witness ==
    /\ ld.pc = "done" /\ ld.ret = NullPtr
    /\ CommentBetweenRecords
    /\ ld.pos > HeaderSkipped
    /\ ld.buffer.kind \in {"#", "blank"}
    /\ ~ld.oobStore /\ ~ld.staleUse

\* the vector v has one entry per identifier below the object count, the
\* entries of identifiers that are neither a combinational input nor a DFS
\* node are 0, and every combinational input and DFS node was assigned once
VectorCoversNetwork(v, nAssigned) ==
    LET live == SeqRange(pNtk.cis) \cup SeqRange(Abc_AigDfs(pNtk))
    IN  /\ v.nSize = Abc_NtkObjNumMax(pNtk)
        /\ \A id \in DOMAIN v.pArray : id \notin live => v.pArray[id] = FZero
        /\ \A id \in DOMAIN nAssigned :
              nAssigned[id] = (IF id \in live THEN 1 ELSE 0)

\* C14: the vector returned by Sim_NtkComputeSwitching, and the vector
\* returned by a successful Sim_NtkLoadSwitching, has one entry per
\* identifier below the object count, 0 at every identifier that is neither
\* a combinational input nor a DFS node, and every combinational input and
\* DFS node assigned exactly once.
C14_VectorShape ==
    /\ (ld.pc = "done" /\ ld.ret # NullPtr)
       => VectorCoversNetwork(ld.vSwitching, ld.nAssigned)
    /\ sm.pc = "done"
       => VectorCoversNetwork(sm.vSwitching, sm.nAssigned)

\* C15: when Sim_NtkComputeSwitching returns, the simulation store and the
\* DFS vector have each been released exactly once, no buffer was touched
\* after the release, and only the returned vector is still held.
C15_StoreReleasedOnce ==
    sm.pc \in {"ci", "node", "done"}
    => /\ ~sm.usedAfterFree
       /\ sm.pc # "done" => \A r \in DOMAIN sm.released : sm.released[r] = 0
       /\ sm.pc = "done"
          => /\ sm.released["vSimInfo"] = 1
             /\ sm.released["vNodes"] = 1
             /\ sm.released["vSwitching"] = 0
             /\ sm.held = {"vSwitching"}
             /\ sm.ret = "vSwitching"

C15_Witness ==
    /\ sm.pc = "done"
    /\ sm.nSimWords >= 1
    /\ Len(pNtk.dfs) >= 1
    /\ sm.written = SeqRange(pNtk.cis) \cup SeqRange(pNtk.dfs)
    /\ sm.held = {"vSwitching"}

\* C16: for a network with at least one internal node, a well-formed file
\* that ends right after the last expected Node line, such as the unedited
\* template, is loaded: the load returns a vector, and the end of file met
\* after the last record is no error.
C16_TemplateWithNodesLoads ==
    (/\ LoadEnded
     /\ ld.fileName # NullPtr
     /\ ~ld.allocFailed
     /\ nDfsObjs >= 1
     /\ ValueEditedTemplate)
    => (ld.pc = "done" /\ ld.ret = "vSwitching")

\* C17: in a successful load every slot of Ci_Switching and Node_Switching
\* that is copied into the result was stored by a record of the file: no
\* slot that was never written is copied.
C17_NoUnwrittenSlotCopied ==
    (ld.pc = "done" /\ ld.ret # NullPtr) => ~ld.badRead

====
